---- MODULE Spec2Model ----
(***************************************************************************)
(* Model of simgo's Process (process.go): the handoff protocol between a   *)
(* process goroutine and the context that drives it, over the unbuffered   *)
(* channel proc.sync, with abort propagation and simulation shutdown.      *)
(*                                                                         *)
(* Contexts are goroutines: context 0 is the driver (the simulation), and  *)
(* context p in Procs is the goroutine of process p.  Occurrences are      *)
(* <<"occ", i>> (settled by the driver) and <<"ev", p>> (proc.ev of p).    *)
(***************************************************************************)
EXTENDS Naturals, Sequences, FiniteSets

\* ---------------------------------------------------------------- bounds
\* processes created, occurrences the driver settles, and calls of Wait made
\* in a run (by all processes together)
NumProcs == 3
NumOcc == 1
MaxWaits == 3
\* callbacks registered in a run with AddHandler and AddAbortHandler
MaxCallbacks == 2
\* processes created in the runs that call the status queries and the
\* handler registration of a process
NumApiProcs == 2

Driver == 0
Procs == 1..NumProcs
ApiProcs == 1..NumApiProcs
Ctx == {Driver} \cup Procs
Occ == {<<"occ", i>> : i \in 1..NumOcc}
Events == Occ \cup {<<"ev", p>> : p \in Procs}

NoEvent == <<"none", 0>>
NoFrame == [ev |-> NoEvent, tok |-> TRUE, queue |-> <<>>]
NoObs == [proc |-> Driver, pending |-> FALSE, triggered |-> FALSE,
          processed |-> FALSE, aborted |-> FALSE]

VARIABLES
    state,          \* occurrence -> "pending" | "processed" | "aborted"
    handlers,       \* occurrence -> sequence of on-processed handlers
    abortHandlers,  \* occurrence -> sequence of on-abort handlers
    pc,             \* context -> position in its code
    frame,          \* context -> the settlement it is running handlers of
    arg,            \* process -> the occurrence its Wait suspended on (kept
                    \* when the process ends inside that Wait)
    closed,         \* process -> proc.sync has been closed
    shutdown,       \* the simulation's shutdown channel has been closed
    nWait,          \* number of Wait calls made so far
    last,           \* process -> the last thing that happened to its logic
    obs,            \* what the status queries called in the last step returned
    registered,     \* process -> outcome -> callbacks added to proc.ev
    invoked         \* process -> outcome -> callbacks of proc.ev run so far

vars == <<state, handlers, abortHandlers, pc, frame, arg, closed,
          shutdown, nWait, last, obs, registered, invoked>>

\* ------------------------------------------------------- process fields
\* proc.ev: the completion occurrence of process p
ev(p) == <<"ev", p>>

ResumeHandler_SendsFalse(p) == [proc |-> p, tok |-> FALSE]

\* the closure registered by Wait with ev.AddHandler: sends true on sync
ResumeHandler(p) == [proc |-> p, tok |-> TRUE]

AbortHandler_SendsTrue(p) == [proc |-> p, tok |-> TRUE]

\* the closure registered by Wait with ev.AddAbortHandler: sends false
AbortHandler(p) == [proc |-> p, tok |-> FALSE]

\* the handler of the start occurrence of p: starts the goroutine of p and
\* receives on its channel
StartHandler(p) == [proc |-> p, tok |-> TRUE]
StartEvent(p) == <<"start", p>>

\* ------------------------------------------------- occurrence (Awaitable)
Processed(e) == state[e] = "processed"
Aborted(e) == state[e] = "aborted"
Pending(e) == state[e] = "pending"
\* an occurrence is triggered once it has settled, whatever the outcome
Triggered(e) == Processed(e) \/ Aborted(e)

\* a caller-supplied callback added to the completion occurrence of p
Callback(p, tok) == [proc |-> p, tok |-> tok, user |-> TRUE]
IsCallback(h) == "user" \in DOMAIN h

\* the handlers a settlement runs, in registration order
HandlerList(e, tok) == IF tok THEN handlers[e] ELSE abortHandlers[e]

\* the settlement of e with the given outcome, about to run its handlers
NewFrame(e, tok) == [ev |-> e, tok |-> tok, queue |-> HandlerList(e, tok)]

\* the handler a context is running, and the process whose channel it uses
CurHandler(c) == Head(frame[c].queue)
tgt(c) == CurHandler(c).proc

\* a Go panic in any goroutine ends the program
Crashed == \E c \in Ctx : pc[c] = "panic"

\* ---------------------------------------------------------- channel ends
\* context c is blocked sending on the sync channel of p
Sending(c, p) ==
    \/ c = p /\ pc[c] = "yield"
    \/ pc[c] = "hsend" /\ tgt(c) = p

Receiving_AnyChannel(c, p) == pc[c] \in {"select", "hrecv"}

\* context c is blocked receiving on the sync channel of p
Receiving(c, p) ==
    \/ c = p /\ pc[c] = "select"
    \/ pc[c] = "hrecv" /\ tgt(c) = p

\* context c is executing (not blocked on a channel operation, not ended)
Running(c) ==
    IF c = Driver
    THEN pc[c] \in {"idle", "callback"}
    ELSE pc[c] \in {"run", "register", "abort", "exiting", "callback"}

Init ==
    /\ state = [e \in Events |-> "pending"]
    /\ handlers = [e \in Events |-> <<>>]
    /\ abortHandlers = [e \in Events |-> <<>>]
    /\ pc = [c \in Ctx |-> IF c = Driver THEN "idle" ELSE "unstarted"]
    /\ frame = [c \in Ctx |-> NoFrame]
    /\ arg = [p \in Procs |-> NoEvent]
    /\ closed = [p \in Procs |-> FALSE]
    /\ shutdown = FALSE
    /\ nWait = 0
    /\ last = [p \in Procs |-> "none"]
    /\ obs = NoObs
    /\ registered = [p \in Procs |-> [tok \in BOOLEAN |-> 0]]
    /\ invoked = [p \in Procs |-> [tok \in BOOLEAN |-> 0]]

\* ------------------------------------------------------------ Process.Wait
WaitBranch_NoFastPath(e) == IF Aborted(e) THEN "abort" ELSE "register"

WaitBranch_NoAbortCheck(e) == IF Processed(e) THEN "run" ELSE "register"

\* lines 44-55: which way Wait goes for an occurrence in the given state
WaitBranch(e) ==
    IF Processed(e) THEN "run"
    ELSE IF Aborted(e) THEN "abort"
    ELSE "register"

SelectToken_Ignored(processed) == "run"

\* lines 77-82: what the select does with a token received from sync
SelectToken(processed) == IF processed THEN "run" ELSE "abort"

\* what a call of Wait that takes the given branch is recorded as in last
WaitOutcome(branch) ==
    IF branch = "run" THEN "returned"
    ELSE IF branch = "abort" THEN "preaborted"
    ELSE "suspended"

\* lines 43-53: the process calls Wait(e); the two early exits.  The logic of
\* a process is any sequence of Wait calls, on any occurrence but its own
\* completion occurrence, followed by its return.
WaitCall(p, e) ==
    /\ ~Crashed
    /\ pc[p] = "run"
    /\ nWait < MaxWaits
    /\ e # ev(p)
    /\ nWait' = nWait + 1
    /\ arg' = [arg EXCEPT ![p] = IF WaitBranch(e) = "register" THEN e ELSE NoEvent]
    /\ pc' = [pc EXCEPT ![p] = WaitBranch(e)]
    /\ last' = [last EXCEPT ![p] = WaitOutcome(WaitBranch(e))]
    /\ UNCHANGED <<state, handlers, abortHandlers, frame, closed, shutdown>>
    /\ obs' = NoObs
    /\ UNCHANGED <<registered, invoked>>

Register_NoYield(p) ==
    /\ ~Crashed
    /\ pc[p] = "register"
    /\ handlers' = [handlers EXCEPT ![arg[p]] = Append(@, ResumeHandler(p))]
    /\ abortHandlers' = [abortHandlers EXCEPT ![arg[p]] = Append(@, AbortHandler(p))]
    /\ pc' = [pc EXCEPT ![p] = "select"]
    /\ UNCHANGED <<state, frame, arg, closed, shutdown, nWait, last>>
    /\ obs' = NoObs
    /\ UNCHANGED <<registered, invoked>>

Register_NoAbortHandler(p) ==
    /\ ~Crashed
    /\ pc[p] = "register"
    /\ handlers' = [handlers EXCEPT ![arg[p]] = Append(@, ResumeHandler(p))]
    /\ pc' = [pc EXCEPT ![p] = "yield"]
    /\ UNCHANGED <<state, abortHandlers, frame, arg, closed, shutdown, nWait, last>>
    /\ obs' = NoObs
    /\ UNCHANGED <<registered, invoked>>

\* lines 55-71: register the on-processed and the on-abort handler; the
\* process is then at its send of line 74
Register(p) ==
    /\ ~Crashed
    /\ pc[p] = "register"
    /\ handlers' = [handlers EXCEPT ![arg[p]] = Append(@, ResumeHandler(p))]
    /\ abortHandlers' = [abortHandlers EXCEPT ![arg[p]] = Append(@, AbortHandler(p))]
    /\ pc' = [pc EXCEPT ![p] = "yield"]
    /\ UNCHANGED <<state, frame, arg, closed, shutdown, nWait, last>>
    /\ obs' = NoObs
    /\ UNCHANGED <<registered, invoked>>

\* where context c goes on with settlement f: into the next handler, at
\* its send on the channel, or back to the caller when every handler has run
\* (the driver's loop; in a process, the end of its goroutine)
ContinuePc(c, f) ==
    IF f.queue # <<>>
    THEN IF IsCallback(Head(f.queue)) THEN "callback" ELSE "hsend"
    ELSE IF c = Driver THEN "idle" ELSE "exiting"
ContinueFrame(f) == IF f.queue # <<>> THEN f ELSE NoFrame

\* the handler run by c returns: c goes on with the rest of the settlement
RetFrame(c) == ContinueFrame([frame[c] EXCEPT !.queue = Tail(@)])
RetPc(c) == ContinuePc(c, [frame[c] EXCEPT !.queue = Tail(@)])

HandlerAfterSend_NoWait(c) ==
    [pc |-> ContinuePc(c, [frame[c] EXCEPT !.queue = Tail(@)]),
     frame |-> ContinueFrame([frame[c] EXCEPT !.queue = Tail(@)])]

\* lines 60-61 and 69-70: after its send the handler run by c waits for the
\* process, receiving on the same channel, before it returns
HandlerAfterSend(c) == [pc |-> "hrecv", frame |-> frame[c]]

ShutdownBranch_Aborts == "abort"

\* line 85: the shutdown case of the select ends the goroutine at once
ShutdownBranch == "exiting"

\* line 74 (proc.sync <- true) meeting a receive on proc.sync: lines 61, 70
\* of the handler that drives p, or the receive of the context that started p
Yield(p, r) ==
    /\ ~Crashed
    /\ pc[p] = "yield"
    /\ r # p /\ Receiving(r, p)
    /\ pc' = [pc EXCEPT ![p] = "select", ![r] = RetPc(r)]
    /\ frame' = [frame EXCEPT ![r] = RetFrame(r)]
    /\ UNCHANGED <<state, handlers, abortHandlers, arg, closed, shutdown, nWait, last>>
    /\ obs' = NoObs
    /\ UNCHANGED <<registered, invoked>>

\* lines 58, 67 (proc.sync <- true/false in a handler run by c) meeting a
\* receive on the same channel: the select of the process (line 77), or the
\* receive of another context blocked on that channel (lines 61, 70)
HandlerSend(c, r) ==
    /\ ~Crashed
    /\ pc[c] = "hsend"
    /\ ~closed[tgt(c)]
    /\ r # c /\ Receiving(r, tgt(c))
    /\ IF r = tgt(c)
       THEN /\ pc' = [pc EXCEPT ![c] = HandlerAfterSend(c).pc,
                                ![r] = SelectToken(CurHandler(c).tok)]
            /\ arg' = [arg EXCEPT ![r] = IF SelectToken(CurHandler(c).tok) = "run"
                                           THEN NoEvent ELSE @]
            /\ last' = [last EXCEPT ![r] = IF CurHandler(c).tok
                                           THEN "resumed" ELSE "aborttoken"]
            /\ frame' = [frame EXCEPT ![c] = HandlerAfterSend(c).frame]
       ELSE /\ pc' = [pc EXCEPT ![c] = HandlerAfterSend(c).pc, ![r] = RetPc(r)]
            /\ frame' = [frame EXCEPT ![r] = RetFrame(r),
                                      ![c] = HandlerAfterSend(c).frame]
            /\ UNCHANGED <<arg, last>>
    /\ UNCHANGED <<state, handlers, abortHandlers, closed, shutdown, nWait>>
    /\ obs' = NoObs
    /\ UNCHANGED <<registered, invoked>>

\* lines 58, 67: a send on a closed channel panics
HandlerSendClosed(c) ==
    /\ ~Crashed
    /\ pc[c] = "hsend"
    /\ closed[tgt(c)]
    /\ pc' = [pc EXCEPT ![c] = "panic"]
    /\ UNCHANGED <<state, handlers, abortHandlers, frame, arg, closed,
                   shutdown, nWait, last>>
    /\ obs' = NoObs
    /\ UNCHANGED <<registered, invoked>>

\* lines 61, 70: a receive on a closed channel returns at once
HandlerRecvClosed(c) ==
    /\ ~Crashed
    /\ pc[c] = "hrecv"
    /\ closed[tgt(c)]
    /\ pc' = [pc EXCEPT ![c] = RetPc(c)]
    /\ frame' = [frame EXCEPT ![c] = RetFrame(c)]
    /\ UNCHANGED <<state, handlers, abortHandlers, arg, closed, shutdown, nWait, last>>
    /\ obs' = NoObs
    /\ UNCHANGED <<registered, invoked>>

SelectShutdown_NoCase(p) ==
    /\ pc[p] = "select"
    /\ FALSE
    /\ UNCHANGED vars

\* lines 84-85: the select takes the shutdown case and calls runtime.Goexit
SelectShutdown(p) ==
    /\ ~Crashed
    /\ pc[p] = "select"
    /\ shutdown
    /\ pc' = [pc EXCEPT ![p] = ShutdownBranch]
    /\ last' = [last EXCEPT ![p] = "shutdown"]
    /\ UNCHANGED <<state, handlers, abortHandlers, frame, arg, closed,
                   shutdown, nWait>>
    /\ obs' = NoObs
    /\ UNCHANGED <<registered, invoked>>

\* ------------------------------------------------ occurrence settlement
\* Abort/processing of occurrence e by context c: e takes its final state,
\* its handlers of that outcome are queued to run in c, both lists are
\* released
SettleIn(c, e, tok) ==
    /\ state' = [state EXCEPT ![e] = IF tok THEN "processed" ELSE "aborted"]
    /\ frame' = [frame EXCEPT ![c] = ContinueFrame(NewFrame(e, tok))]
    /\ handlers' = [handlers EXCEPT ![e] = <<>>]
    /\ abortHandlers' = [abortHandlers EXCEPT ![e] = <<>>]
    /\ pc' = [pc EXCEPT ![c] = ContinuePc(c, NewFrame(e, tok))]

AbortOwn_NoAbort(p) ==
    /\ ~Crashed
    /\ pc[p] = "abort"
    /\ pc' = [pc EXCEPT ![p] = "exiting"]
    /\ UNCHANGED <<state, frame, handlers, abortHandlers>>
    /\ UNCHANGED <<arg, closed, shutdown, nWait, last>>
    /\ obs' = NoObs
    /\ UNCHANGED <<registered, invoked>>

\* lines 51 and 80: proc.ev.Abort(), which settles proc.ev as aborted and
\* runs its abort handlers in the goroutine of p; then line 52 / 81
AbortOwn(p) ==
    /\ ~Crashed
    /\ pc[p] = "abort"
    /\ IF Pending(ev(p))
       THEN SettleIn(p, ev(p), FALSE)
       ELSE /\ pc' = [pc EXCEPT ![p] = "exiting"]
            /\ UNCHANGED <<state, frame, handlers, abortHandlers>>
    /\ UNCHANGED <<arg, closed, shutdown, nWait, last>>
    /\ obs' = NoObs
    /\ UNCHANGED <<registered, invoked>>

\* the driver settles a pending occurrence as processed or aborted
\* (occurrences are interchangeable: they are settled in index order)
Settle(o, tok) ==
    /\ ~Crashed
    /\ pc[Driver] = "idle"
    /\ Pending(o)
    /\ \A i \in 1..NumOcc : i < o[2] => ~Pending(<<"occ", i>>)
    /\ SettleIn(Driver, o, tok)
    /\ UNCHANGED <<arg, closed, shutdown, nWait, last>>
    /\ obs' = NoObs
    /\ UNCHANGED <<registered, invoked>>

\* ------------------------------------------------------ process lifetime
\* the driver processes the start occurrence of p: its handler starts the
\* goroutine of p and blocks receiving on p's channel (processes are
\* interchangeable: they are started in index order)
Launch(p) ==
    /\ ~Crashed
    /\ pc[Driver] = "idle"
    /\ pc[p] = "unstarted"
    /\ \A q \in Procs : q < p => pc[q] # "unstarted"
    /\ pc' = [pc EXCEPT ![Driver] = "hrecv", ![p] = "run"]
    /\ frame' = [frame EXCEPT ![Driver] =
                    [ev |-> StartEvent(p), tok |-> TRUE, queue |-> <<StartHandler(p)>>]]
    /\ UNCHANGED <<state, handlers, abortHandlers, arg, closed, shutdown,
                   nWait, last>>
    /\ obs' = NoObs
    /\ UNCHANGED <<registered, invoked>>

\* the logic of p returns: proc.ev settles as processed, its handlers run
Finish(p) ==
    /\ ~Crashed
    /\ pc[p] = "run"
    /\ Pending(ev(p))
    /\ SettleIn(p, ev(p), TRUE)
    /\ last' = [last EXCEPT ![p] = "finished"]
    /\ UNCHANGED <<arg, closed, shutdown, nWait>>
    /\ obs' = NoObs
    /\ UNCHANGED <<registered, invoked>>

\* the goroutine of p ends (return or runtime.Goexit): its channel is closed
Exit(p) ==
    /\ ~Crashed
    /\ pc[p] = "exiting"
    /\ pc' = [pc EXCEPT ![p] = "done"]
    /\ closed' = [closed EXCEPT ![p] = TRUE]
    /\ UNCHANGED <<state, handlers, abortHandlers, frame, arg, shutdown,
                   nWait, last>>
    /\ obs' = NoObs
    /\ UNCHANGED <<registered, invoked>>

\* the simulation's shutdown channel is closed
RaiseShutdown ==
    /\ ~Crashed
    /\ pc[Driver] = "idle"
    /\ ~shutdown
    /\ shutdown' = TRUE
    /\ UNCHANGED <<state, handlers, abortHandlers, pc, frame, arg, closed,
                   nWait, last>>
    /\ obs' = NoObs
    /\ UNCHANGED <<registered, invoked>>

\* ------------------------------------------- status queries (lines 89-107)
ProcPending(p) == Pending(ev(p))

ProcTriggered_NotWhenAborted(p) == Processed(ev(p))

ProcTriggered(p) == Triggered(ev(p))

ProcProcessed_OfAwaited(p) ==
    \/ last[p] \in {"returned", "resumed"}
    \/ arg[p] \in Events /\ Processed(arg[p])

ProcProcessed(p) == Processed(ev(p))

ProcAborted(p) == Aborted(ev(p))

\* the code of context c is at a point where it can call a method of a
\* process: the driver between two settlements, a process in its logic
CanCall(c) == IF c = Driver THEN pc[c] = "idle" ELSE pc[c] = "run"

\* context c calls Pending, Triggered, Processed and Aborted of process p
Query(c, p) ==
    /\ ~Crashed
    /\ CanCall(c)
    /\ obs' = [proc |-> p, pending |-> ProcPending(p),
               triggered |-> ProcTriggered(p),
               processed |-> ProcProcessed(p), aborted |-> ProcAborted(p)]
    /\ UNCHANGED <<state, handlers, abortHandlers, pc, frame, arg, closed,
                   shutdown, nWait, last, registered, invoked>>

\* ------------------------------- handler registration (lines 109-117)
\* callbacks added so far, by all callers together
RECURSIVE CallbacksOf(_)
CallbacksOf(n) ==
    IF n = 0 THEN 0
    ELSE registered[n][TRUE] + registered[n][FALSE] + CallbacksOf(n - 1)

\* the occurrence's addHandler / addAbortHandler: the callback goes to the
\* end of the list of a pending occurrence; a settled occurrence runs no
\* handler any more, and keeps none
EvAddHandler(e, h, tok) ==
    IF ~Pending(e) THEN UNCHANGED <<handlers, abortHandlers>>
    ELSE IF tok
    THEN /\ handlers' = [handlers EXCEPT ![e] = Append(@, h)]
         /\ UNCHANGED abortHandlers
    ELSE /\ abortHandlers' = [abortHandlers EXCEPT ![e] = Append(@, h)]
         /\ UNCHANGED handlers

\* lines 110-112: the list of proc.ev that AddHandler adds to (TRUE: the
\* on-processed handlers)
AddHandler_List(p) == TRUE

\* lines 115-117: the list of proc.ev that AddAbortHandler adds to (FALSE:
\* the on-abort handlers)
AddAbortHandler_List(p) == FALSE

\* context c calls p.AddHandler(callback) (tok) or p.AddAbortHandler (~tok)
AddCallback(c, p, tok) ==
    /\ ~Crashed
    /\ CanCall(c)
    /\ CallbacksOf(NumProcs) < MaxCallbacks
    /\ EvAddHandler(ev(p), Callback(p, tok), tok)
    /\ registered' = [registered EXCEPT ![p][tok] =
                         IF Pending(ev(p)) THEN @ + 1 ELSE @]
    /\ obs' = NoObs
    /\ UNCHANGED <<state, pc, frame, arg, closed, shutdown, nWait, last, invoked>>

AddHandler(c, p) == AddCallback(c, p, AddHandler_List(p))
AddAbortHandler(c, p) == AddCallback(c, p, AddAbortHandler_List(p))

\* the settlement run by c invokes a callback, which returns
RunCallback(c) ==
    /\ ~Crashed
    /\ pc[c] = "callback"
    /\ invoked' = [invoked EXCEPT ![CurHandler(c).proc][CurHandler(c).tok] = @ + 1]
    /\ pc' = [pc EXCEPT ![c] = RetPc(c)]
    /\ frame' = [frame EXCEPT ![c] = RetFrame(c)]
    /\ obs' = NoObs
    /\ UNCHANGED <<state, handlers, abortHandlers, arg, closed, shutdown,
                   nWait, last, registered>>

Next ==
    \/ \E p \in Procs : Launch(p)
    \/ \E p \in Procs, e \in Events : WaitCall(p, e)
    \/ \E p \in Procs : Register(p)
    \/ \E p \in Procs, r \in Ctx : Yield(p, r)
    \/ \E c \in Ctx, r \in Ctx : HandlerSend(c, r)
    \/ \E c \in Ctx : HandlerSendClosed(c)
    \/ \E c \in Ctx : HandlerRecvClosed(c)
    \/ \E p \in Procs : SelectShutdown(p)
    \/ \E p \in Procs : AbortOwn(p)
    \/ \E o \in Occ, tok \in BOOLEAN : Settle(o, tok)
    \/ \E p \in Procs : Finish(p)
    \/ \E p \in Procs : Exit(p)
    \/ RaiseShutdown

Spec == Init /\ [][Next]_vars

\* a step of the code context c is running: a statement of Wait or of a
\* handler, a channel operation that has a partner, the end of a goroutine
Step(c) ==
    \/ /\ c \in Procs
       /\ \/ Register(c)
          \/ \E r \in Ctx : Yield(c, r)
          \/ SelectShutdown(c)
          \/ AbortOwn(c)
          \/ Exit(c)
    \/ \E r \in Ctx : HandlerSend(c, r)
    \/ HandlerSendClosed(c)
    \/ HandlerRecvClosed(c)

\* a step of the logic of process p: it calls Wait or returns
Logic(p) == (\E e \in Events : WaitCall(p, e)) \/ Finish(p)

\* every goroutine that can take a step eventually takes one, and the logic
\* of a process does not run for ever; the driver is free to stop
FairSpec ==
    /\ Spec
    /\ \A c \in Ctx : WF_vars(Step(c))
    /\ \A p \in Procs : WF_vars(Logic(p))

\* the protocol together with the methods that delegate to proc.ev
ApiNext ==
    \/ \E p \in ApiProcs : Launch(p)
    \/ \E p \in Procs, e \in Events : WaitCall(p, e)
    \/ \E p \in Procs : Register(p)
    \/ \E p \in Procs, r \in Ctx : Yield(p, r)
    \/ \E c \in Ctx, r \in Ctx : HandlerSend(c, r)
    \/ \E c \in Ctx : HandlerSendClosed(c)
    \/ \E c \in Ctx : HandlerRecvClosed(c)
    \/ \E p \in Procs : SelectShutdown(p)
    \/ \E p \in Procs : AbortOwn(p)
    \/ \E o \in Occ, tok \in BOOLEAN : Settle(o, tok)
    \/ \E p \in Procs : Finish(p)
    \/ \E p \in Procs : Exit(p)
    \/ RaiseShutdown
    \/ \E c \in Ctx, p \in ApiProcs : Query(c, p)
    \/ \E c \in Ctx, p \in ApiProcs : AddHandler(c, p)
    \/ \E c \in Ctx, p \in ApiProcs : AddAbortHandler(c, p)
    \/ \E c \in Ctx : RunCallback(c)

ApiSpec == Init /\ [][ApiNext]_vars

TypeOK ==
    /\ state \in [Events -> {"pending", "processed", "aborted"}]
    /\ pc \in [Ctx -> {"unstarted", "idle", "run", "register", "yield", "select",
                       "abort", "hsend", "hrecv", "callback", "exiting", "done",
                       "panic"}]
    /\ pc[Driver] \in {"idle", "hsend", "hrecv", "callback", "panic"}
    /\ \A p \in Procs : pc[p] # "idle"
    /\ closed \in [Procs -> BOOLEAN]
    /\ shutdown \in BOOLEAN
    /\ nWait \in 0..MaxWaits
    /\ last \in [Procs -> {"none", "returned", "preaborted", "suspended",
                           "resumed", "aborttoken", "shutdown", "finished"}]
    /\ obs \in [proc : Ctx, pending : BOOLEAN, triggered : BOOLEAN,
                processed : BOOLEAN, aborted : BOOLEAN]
    /\ registered \in [Procs -> [BOOLEAN -> 0..MaxCallbacks]]
    /\ invoked \in [Procs -> [BOOLEAN -> 0..MaxCallbacks]]

\* the goroutine of p is ending, or has ended, through the shutdown case
ShutdownExit(p) == p \in Procs /\ last[p] = "shutdown"

\* the contexts that are executing, the goroutines killed by shutdown aside
Active == {c \in Ctx : Running(c) /\ ~ShutdownExit(c)}

\* the handlers of process p still to run in the settlements of e under way
QueuedFor(p, e) ==
    {ci \in Ctx \X (1..NumProcs) :
        /\ frame[ci[1]].ev = e
        /\ ci[2] <= Len(frame[ci[1]].queue)
        /\ frame[ci[1]].queue[ci[2]].proc = p}

\* ------------------------------------------------------------------- C1
\* C1 as stated: once O is processed while P is suspended in Wait(O), the
\* only way P leaves that suspension is that its Wait returns.
C1_ResumesAlways ==
    [][\A p \in Procs :
         (pc[p] = "select" /\ Processed(arg[p]) /\ pc'[p] # "select")
             => pc'[p] = "run"]_vars

\* C1 (amended): while P is suspended in Wait(O) and O is processed, exactly
\* one on-processed handler of P is still to run on O (the wake-up is neither
\* lost nor duplicated, whoever else waits on O); a handler only ever sends
\* to a process still suspended on the occurrence being settled, unless that
\* process was killed by shutdown; and P leaves the suspension by its Wait
\* returning on that one resume token, or else through the shutdown branch.
C1_OneWakeup ==
    /\ [](\A p \in Procs :
            (pc[p] = "select" /\ Processed(arg[p]))
                => /\ Cardinality(QueuedFor(p, arg[p])) = 1
                   /\ \A ci \in QueuedFor(p, arg[p]) :
                         frame[ci[1]].queue[ci[2]] = ResumeHandler(p))
    /\ [](\A c \in Ctx :
            (pc[c] = "hsend" /\ frame[c].ev \in Events)
                => \/ pc[tgt(c)] = "select" /\ arg[tgt(c)] = frame[c].ev
                   \/ ShutdownExit(tgt(c)))
    /\ [][\A p \in Procs :
            (pc[p] = "select" /\ Processed(arg[p]) /\ pc'[p] # "select")
                => \/ /\ pc'[p] = "run" /\ last'[p] = "resumed"
                      /\ QueuedFor(p, arg[p])' = {}
                      /\ \E c \in Ctx : pc[c] = "hsend" /\ tgt(c) = p
                                          /\ frame[c].ev = arg[p]
                   \/ shutdown /\ last'[p] = "shutdown"]_vars

\* C1 witness: two processes were suspended on the same occurrence, it was
\* processed, and the first has been resumed while the second still waits
C1_Witness ==
    \E p, q \in Procs, c \in Ctx :
        /\ p # q /\ last[p] = "resumed" /\ pc[p] = "run"
        /\ pc[c] = "hrecv" /\ tgt(c) = p /\ frame[c].ev \in Occ
        /\ pc[q] = "select" /\ arg[q] = frame[c].ev /\ Processed(arg[q])

\* ------------------------------------------------------------------- C2
\* C2 as stated: at most one context (process goroutine or driver) is
\* outside a blocking send/receive on a handoff channel.
C2_OneRunning == Cardinality({c \in Ctx : Running(c)}) <= 1

\* C2 (amended): goroutines ending through the shutdown branch aside, at most
\* one context is executing; and whenever a process is executing, exactly one
\* other context, the one driving it, is blocked receiving on that process's
\* channel, and nobody is blocked sending on it.
C2_OneActive ==
    /\ Cardinality(Active) <= 1
    /\ \A p \in Procs :
         p \in Active =>
            /\ Cardinality({c \in Ctx : Receiving(c, p)}) = 1
            /\ \A c \in Ctx : Receiving(c, p) => c # p /\ pc[c] = "hrecv"
            /\ \A c \in Ctx : ~Sending(c, p)

\* C2 witness: Wait has just returned in a process on a resume token, and
\* the context that sent the token is blocked receiving on its channel
C2_Witness ==
    \E p \in Procs, c \in Ctx :
        /\ pc[p] = "run" /\ last[p] = "resumed"
        /\ pc[c] = "hrecv" /\ tgt(c) = p /\ frame[c].ev \in Events
        /\ Active = {p}

\* ------------------------------------------------------------------- C3
\* C3 as stated: a handler registered by a process that ended through the
\* shutdown branch can be run safely when the occurrence settles later: the
\* settling context is neither made to panic nor left blocked on its send.
C3_StaleHandlersHarmless ==
    \A c \in Ctx :
        (pc[c] \in {"hsend", "panic"} /\ frame[c].ev \in Events)
            => ~(pc[tgt(c)] = "done" /\ last[tgt(c)] = "shutdown")

\* ------------------------------------------------------------------- C4
\* positions of a process that is aborting itself inside Wait: it calls
\* proc.ev.Abort (running the abort handlers of proc.ev) and ends
AbortPath == {"abort", "hsend", "hrecv", "exiting", "done", "panic"}

\* C4 as stated: once O is aborted while P is suspended in Wait(O), the only
\* way P leaves that suspension is by aborting its own completion occurrence.
C4_AbortsAlways ==
    [][\A p \in Procs :
         (pc[p] = "select" /\ Aborted(arg[p]) /\ pc'[p] # "select")
             => pc'[p] = "abort"]_vars

\* C4 (amended): once O is aborted while P is suspended in Wait(O), P leaves
\* the suspension on the abort token, or else through the shutdown branch;
\* after the abort token its Wait never returns, P is never again at a
\* statement of its logic, and once proc.ev.Abort has been called P's
\* completion occurrence is aborted and not processed.
C4_AbortOnToken ==
    /\ [][\A p \in Procs :
            (pc[p] = "select" /\ Aborted(arg[p]) /\ pc'[p] # "select")
                => \/ pc'[p] = "abort" /\ last'[p] = "aborttoken"
                   \/ shutdown /\ last'[p] = "shutdown"]_vars
    /\ [](\A p \in Procs :
            last[p] = "aborttoken"
                => /\ pc[p] \in AbortPath
                   /\ pc[p] # "abort" => Aborted(ev(p)) /\ ~Processed(ev(p)))
    /\ [][\A p \in Procs : last[p] = "aborttoken" => last'[p] = "aborttoken"]_vars

\* C4 witness: a process suspended on an occurrence that the driver aborted
\* has ended with its completion occurrence aborted
C4_Witness ==
    \E p \in Procs :
        /\ last[p] = "aborttoken" /\ pc[p] = "done"
        /\ arg[p] \in Occ /\ Aborted(arg[p])
        /\ Aborted(ev(p)) /\ ~Processed(ev(p))

\* ------------------------------------------------------------------- C5
\* some process is suspended on the completion occurrence of p
Awaited(p) == \E q \in Procs : q # p /\ pc[q] = "select" /\ arg[q] = ev(p)

\* C5 as stated: a process of a wait chain whose awaited occurrence has been
\* aborted always goes on to abort its own completion occurrence, so that the
\* abort reaches the processes waiting on it.
C5_ChainAbortsAlways ==
    [][\A p \in Procs :
         (pc[p] = "select" /\ Aborted(arg[p]) /\ Awaited(p) /\ pc'[p] # "select")
             => pc'[p] = "abort" /\ last'[p] = "aborttoken"]_vars

\* C5 (amended): the abort of an occurrence is on its way, exactly once, to
\* every process suspended on it; the process an abort handler is driving
\* received the abort token; a process that received the abort token is
\* never again in its logic and, once it has called proc.ev.Abort, its
\* completion occurrence is aborted, so the same holds for its own waiters;
\* and as long as shutdown has not been raised nothing panics and, whenever
\* the driver has control again, the cascade is complete: no process is left
\* suspended on a settled occurrence and every process that received an
\* abort token has ended.
C5_CascadeComplete ==
    /\ \A p \in Procs :
         (pc[p] = "select" /\ Aborted(arg[p]))
            => /\ Cardinality(QueuedFor(p, arg[p])) = 1
               /\ \A ci \in QueuedFor(p, arg[p]) :
                     frame[ci[1]].queue[ci[2]] = AbortHandler(p)
    /\ \A c \in Ctx :
         (pc[c] = "hrecv" /\ frame[c].ev \in Events /\ ~frame[c].tok)
            => last[tgt(c)] = "aborttoken"
    /\ \A p \in Procs :
         last[p] = "aborttoken"
            => /\ pc[p] \in AbortPath
               /\ pc[p] # "abort" => Aborted(ev(p))
               /\ Aborted(arg[p])
    /\ ~shutdown => ~Crashed
    /\ (~shutdown /\ pc[Driver] = "idle") =>
         \A p \in Procs :
            /\ pc[p] = "select" => Pending(arg[p])
            /\ last[p] = "aborttoken" => pc[p] = "done"

\* C5 witness: a chain of depth 3 (p1 waits on p2, p2 on p3, p3 on an
\* occurrence the driver aborted) has been aborted throughout, and the driver
\* has control again
C5_Witness ==
    \E p1, p2, p3 \in Procs :
        /\ arg[p1] = ev(p2) /\ arg[p2] = ev(p3) /\ arg[p3] \in Occ
        /\ \A p \in {p1, p2, p3} :
              last[p] = "aborttoken" /\ pc[p] = "done" /\ Aborted(ev(p))
        /\ pc[Driver] = "idle" /\ ~shutdown

\* ------------------------------------------------------------------- C6
\* C6: a call of Wait on an occurrence that is already processed returns to
\* the process at once: the process stays in its logic, no context changes
\* position (nothing is sent or received, nobody is suspended or resumed),
\* no handler is registered or run, and the occurrences, the process's
\* completion occurrence and the channels are unchanged.
C6_FastPath ==
    [][\A p \in Procs, e \in Events :
         (Processed(e) /\ WaitCall(p, e))
             => /\ pc' = pc /\ pc'[p] = "run"
                /\ UNCHANGED <<state, handlers, abortHandlers, frame, closed,
                               arg, shutdown>>]_vars

\* C6 witness: a process has called Wait on a processed occurrence and is
\* back in its logic
C6_Witness ==
    \E p \in Procs : last[p] = "returned" /\ pc[p] = "run"

\* ------------------------------------------------------------------- C7
\* C7: a call of Wait on an occurrence that is already aborted registers no
\* handler and takes the process to proc.ev.Abort; from then on the process
\* is never again in its logic, is suspended on nothing, and once Abort has
\* been called its completion occurrence is aborted; and a settled
\* occurrence never holds a handler.
C7_PreAborted ==
    /\ [][\A p \in Procs, e \in Events :
            (Aborted(e) /\ WaitCall(p, e))
                => /\ pc'[p] = "abort"
                   /\ UNCHANGED <<state, handlers, abortHandlers, frame, closed>>]_vars
    /\ [](\A p \in Procs :
            last[p] = "preaborted"
                => /\ pc[p] \in AbortPath
                   /\ pc[p] # "abort" => Aborted(ev(p))
                   /\ arg[p] = NoEvent)
    /\ [][\A p \in Procs : last[p] = "preaborted" => last'[p] = "preaborted"]_vars
    /\ [](\A e \in Events :
            ~Pending(e) => handlers[e] = <<>> /\ abortHandlers[e] = <<>>)

\* C7 witness: a process that called Wait on an aborted occurrence has ended
\* with its completion occurrence aborted
C7_Witness ==
    \E p \in Procs :
        last[p] = "preaborted" /\ pc[p] = "done" /\ Aborted(ev(p))

\* ------------------------------------------------------------------- C8
\* handler h is queued in settlement f behind another handler
QueuedBehind(f, h) ==
    \E i \in 2..Len(f.queue) : f.queue[i] = h

\* C8 as stated: a second process suspended on a processed occurrence, its
\* handler queued behind that of the first, leaves its suspension only by
\* being resumed.
C8_SecondResumesAlways ==
    [][\A p \in Procs :
         (/\ pc[p] = "select" /\ Processed(arg[p])
          /\ \E c \in Ctx : frame[c].ev = arg[p] /\ QueuedBehind(frame[c], ResumeHandler(p))
          /\ pc'[p] # "select")
             => pc'[p] = "run"]_vars

\* C8 (amended): handlers are queued in registration order (a registration
\* goes to the end of the list, a settlement takes the list as it is and runs
\* it from the head); while a handler runs, the processes whose handlers are
\* queued behind it are still suspended (or were killed by shutdown); when a
\* handler sends its token no process is in its logic, so the second process
\* is resumed only after the first has yielded again or ended; a suspended
\* process leaves on its token or through the shutdown branch; and as long as
\* shutdown has not been raised, when the driver has control again no process
\* is left suspended on the processed occurrence.
C8_InOrder ==
    /\ [][\A e \in Events :
            /\ handlers'[e] # handlers[e] =>
                  \/ handlers'[e] = <<>> /\ ~Pending(e)'
                  \/ \E p \in Procs : handlers'[e] = Append(handlers[e], ResumeHandler(p))
            /\ \A c \in Ctx :
                  (frame'[c].ev = e /\ frame[c].ev # e) =>
                      /\ frame[c] = NoFrame
                      /\ \/ frame'[c].queue = HandlerList(e, frame'[c].tok)
                         \/ HandlerList(e, frame'[c].tok) = <<>> /\ frame'[c] = NoFrame
            /\ \A c \in Ctx :
                  (frame'[c].ev = e /\ frame[c].ev = e /\ frame'[c] # frame[c]) =>
                      frame'[c].queue = Tail(frame[c].queue)]_vars
    /\ [](\A c \in Ctx, q \in Procs :
            (frame[c].ev \in Events /\ frame[c].tok
               /\ QueuedBehind(frame[c], ResumeHandler(q)))
                => \/ pc[q] = "select" /\ arg[q] = frame[c].ev
                   \/ ShutdownExit(q))
    /\ [](\A c \in Ctx :
            pc[c] = "hsend" =>
                \A q \in Procs : pc[q] \notin {"run", "register", "yield", "abort"})
    /\ [][\A p \in Procs :
            (pc[p] = "select" /\ Processed(arg[p]) /\ pc'[p] # "select")
                => \/ pc'[p] = "run"
                   \/ shutdown /\ pc'[p] = "exiting"]_vars
    /\ []((~shutdown /\ pc[Driver] = "idle") =>
            \A p \in Procs : pc[p] = "select" => ~Processed(arg[p]))

\* C8 witness: p and q are suspended on the same occurrence, p registered
\* first; it was processed, p was resumed and has suspended again, and now
\* the handler of q sends its token
C8_Witness ==
    \E p, q \in Procs, c \in Ctx :
        /\ p # q /\ frame[c].ev \in Occ /\ frame[c].tok
        /\ pc[c] = "hsend" /\ tgt(c) = q /\ pc[q] = "select"
        /\ last[p] = "suspended" /\ pc[p] = "select" /\ Pending(arg[p])
        /\ ~shutdown

C10_Synchronous ==
    /\ [][\A c \in Ctx :
            (pc[c] = "hsend" /\ pc'[c] # "hsend")
                => \/ pc'[c] = "hrecv" /\ frame'[c] = frame[c]
                   \/ pc'[c] = "panic"]_vars
    /\ [](\A c \in Ctx :
            pc[c] = "hrecv"
                => pc[tgt(c)] \in {"run", "register", "yield", "abort", "hsend",
                                   "hrecv", "exiting", "done", "panic"})
    /\ [][\A c \in Ctx :
            (pc[c] = "hrecv" /\ pc'[c] # "hrecv")
                => \/ pc[tgt(c)] = "yield" /\ pc'[tgt(c)] = "select"
                   \/ pc[tgt(c)] = "done" /\ closed[tgt(c)]]_vars
    /\ [](\A p \in Procs :
            pc[p] \in {"run", "register", "yield", "abort", "hsend", "hrecv"}
                => pc[Driver] = "hrecv")

\* C10 witness: a process resumed inside the settlement of an occurrence is
\* about to yield again in another Wait, while the handler that resumed it is
\* still blocked and another handler of the same settlement has yet to run
C10_Witness ==
    \E p \in Procs, c \in Ctx :
        /\ pc[c] = "hrecv" /\ tgt(c) = p /\ frame[c].ev \in Occ
        /\ Len(frame[c].queue) >= 2
        /\ pc[p] = "yield" /\ arg[p] # frame[c].ev

SettlementOver(p) == Crashed \/ \A c \in Ctx : frame[c].ev # ev(p)

\* C12 as stated: once P has finished normally, every callback added with
\* P.AddHandler has been invoked exactly once and none added with
\* P.AddAbortHandler; once P's completion occurrence has been aborted, every
\* callback added with P.AddAbortHandler has been invoked exactly once and
\* none added with P.AddHandler; callbacks of at most one kind fire.
C12_CallbacksFireOnce ==
    \A p \in Procs :
        /\ invoked[p][TRUE] = 0 \/ invoked[p][FALSE] = 0
        /\ \A tok \in BOOLEAN : invoked[p][tok] <= registered[p][tok]
        /\ Pending(ev(p)) => invoked[p][TRUE] = 0 /\ invoked[p][FALSE] = 0
        /\ Processed(ev(p)) => invoked[p][FALSE] = 0
        /\ Aborted(ev(p)) => invoked[p][TRUE] = 0
        /\ (Processed(ev(p)) /\ SettlementOver(p))
              => invoked[p][TRUE] = registered[p][TRUE]
        /\ (Aborted(ev(p)) /\ SettlementOver(p))
              => invoked[p][FALSE] = registered[p][FALSE]

\* ------------------------------------------------------------------ C13
\* C13: a call of the four status queries of process P moves no context
\* (the caller is not suspended, nothing is sent or received), changes
\* nothing but the values returned, and these are the state of P's own
\* completion occurrence; a call of P.AddHandler or P.AddAbortHandler moves
\* no context either, runs no handler, and changes only the handler lists of
\* P's own completion occurrence.
C13_NonSuspending ==
    /\ [][\A c \in Ctx, p \in Procs :
            Query(c, p)
                => /\ pc' = pc
                   /\ UNCHANGED <<state, handlers, abortHandlers, frame, arg,
                                  closed, shutdown, last, registered, invoked>>
                   /\ obs'.proc = p
                   /\ obs'.pending = Pending(ev(p))
                   /\ obs'.triggered = ~Pending(ev(p))
                   /\ obs'.processed = Processed(ev(p))
                   /\ obs'.aborted = Aborted(ev(p))]_vars
    /\ [][\A c \in Ctx, p \in Procs :
            (AddHandler(c, p) \/ AddAbortHandler(c, p))
                => /\ pc' = pc
                   /\ UNCHANGED <<state, frame, arg, closed, shutdown, last, invoked>>
                   /\ \A e \in Events \ {ev(p)} :
                         handlers'[e] = handlers[e]
                            /\ abortHandlers'[e] = abortHandlers[e]]_vars

\* C13 witness: the Wait of P has returned because the occurrence it awaited
\* was processed, and P, running, has just been told by the queries that its
\* own completion occurrence is pending and not processed
C13_Witness ==
    \E p \in Procs :
        /\ obs # NoObs /\ obs.proc = p
        /\ pc[p] = "run" /\ last[p] = "resumed"
        /\ obs.pending /\ ~obs.processed /\ ~obs.triggered /\ ~obs.aborted
        /\ \E o \in Occ : Processed(o)

\* ------------------------------------------------------------------ C14
\* C14: on the channel of every process at most one context is blocked
\* sending and at most one context is blocked receiving.
C14_OnePair ==
    \A p \in Procs :
        /\ Cardinality({c \in Ctx : Sending(c, p)}) <= 1
        /\ Cardinality({c \in Ctx : Receiving(c, p)}) <= 1

\* C14 witness: process p, finishing, runs the handler that resumes q: its
\* send and the receive of q's select are outstanding on the channel of q,
\* while the driver is blocked receiving on the channel of p
C14_Witness ==
    \E p, q \in Procs :
        /\ p # q /\ pc[p] = "hsend" /\ Sending(p, q)
        /\ pc[q] = "select" /\ Receiving(q, q)
        /\ Receiving(Driver, p)

\* ------------------------------------------------------------------ C15
\* the number of times h is in the list seq
Count(seq, h) == Cardinality({i \in 1..Len(seq) : seq[i] = h})

\* the handlers of process p, queued in the settlements under way, that
\* have yet to send their token
ToSend(p) ==
    {ci \in Ctx \X (1..NumProcs) :
        /\ frame[ci[1]].ev \in Events
        /\ ci[2] <= Len(frame[ci[1]].queue)
        /\ frame[ci[1]].queue[ci[2]].proc = p
        /\ ~(ci[2] = 1 /\ pc[ci[1]] = "hrecv")}

\* C15 as stated: every suspension of a process in Wait ends with the
\* process receiving the one token of that suspension.
C15_OneTokenAlways ==
    [][\A p \in Procs :
         (pc[p] = "select" /\ pc'[p] # "select")
             => last'[p] \in {"resumed", "aborttoken"}]_vars

\* C15 (amended): between the pending check and the registration the
\* occurrence stays pending; when the process sends its yielding token both
\* handlers are on the occurrence, once each, and on no other; while it is
\* suspended either both are still listed on the pending occurrence or the
\* occurrence has settled, both lists are released, and just the handler of
\* the outcome is queued to run, once; a handler sends its token only to a
\* process in its select, which leaves the select with it, so a suspension
\* gets at most one token, true if the occurrence was processed and false if
\* it was aborted; the suspension ends on that token or through shutdown.
C15_RegisteredThenOneToken ==
    /\ [](\A p \in Procs :
            /\ pc[p] = "register" =>
                  /\ Pending(arg[p])
                  /\ ToSend(p) = {}
                  /\ Count(handlers[arg[p]], ResumeHandler(p)) = 0
                  /\ Count(abortHandlers[arg[p]], AbortHandler(p)) = 0
            /\ pc[p] \in {"yield", "select"} =>
                  \/ /\ Pending(arg[p])
                     /\ Count(handlers[arg[p]], ResumeHandler(p)) = 1
                     /\ Count(abortHandlers[arg[p]], AbortHandler(p)) = 1
                     /\ ToSend(p) = {}
                  \/ /\ ~Pending(arg[p]) /\ pc[p] = "select"
                     /\ Cardinality(ToSend(p)) = 1
                     /\ \A ci \in ToSend(p) :
                           /\ frame[ci[1]].ev = arg[p]
                           /\ frame[ci[1]].queue[ci[2]].tok = Processed(arg[p])
            /\ \A e \in Events :
                  (Count(handlers[e], ResumeHandler(p)) > 0
                     \/ Count(abortHandlers[e], AbortHandler(p)) > 0)
                      => /\ e = arg[p] /\ Pending(e)
                         /\ pc[p] \in {"yield", "select"} \/ ShutdownExit(p))
    /\ [][\A c \in Ctx, r \in Ctx :
            HandlerSend(c, r)
                => /\ r = tgt(c) /\ pc[r] = "select" /\ pc'[r] # "select"
                   /\ frame[c].ev = arg[r]
                   /\ CurHandler(c).tok = Processed(arg[r])
                   /\ ToSend(r)' = {}]_vars
    /\ [][\A p \in Procs :
            (pc[p] = "select" /\ pc'[p] # "select")
                => \/ Processed(arg[p]) /\ last'[p] = "resumed" /\ pc'[p] = "run"
                   \/ Aborted(arg[p]) /\ last'[p] = "aborttoken" /\ pc'[p] = "abort"
                   \/ shutdown /\ last'[p] = "shutdown"]_vars

\* C15 witness: the occurrence a process is suspended on was aborted: both
\* lists are released and the on-abort handler of the process, alone, is
\* about to send it the abort token
C15_Witness ==
    \E p \in Procs, c \in Ctx :
        /\ pc[p] = "select" /\ arg[p] \in Occ /\ Aborted(arg[p])
        /\ pc[c] = "hsend" /\ CurHandler(c) = AbortHandler(p)
        /\ handlers[arg[p]] = <<>> /\ abortHandlers[arg[p]] = <<>>
        /\ Cardinality(ToSend(p)) = 1

\* ------------------------------------------------------------------ C16
\* C16: the token a handler sends is received by the select of the process
\* the handler was registered by, and by no handler; the yielding token of a
\* process is received by the context driving it, blocked after its own
\* send in the handler that resumed the process or in the one that started
\* it, and never by a process's select; and whenever a token is on offer the
\* opposite side is the only context receiving on that channel.
C16_OppositeSide ==
    /\ [][\A c \in Ctx, r \in Ctx :
            HandlerSend(c, r)
                => /\ r = tgt(c) /\ r \in Procs /\ pc[r] = "select"
                   /\ CurHandler(c) \in {ResumeHandler(r), AbortHandler(r)}]_vars
    /\ [][\A p \in Procs, r \in Ctx :
            Yield(p, r)
                => /\ r # p /\ pc[r] = "hrecv" /\ CurHandler(r).proc = p
                   /\ \/ frame[r].ev = StartEvent(p)
                      \/ frame[r].ev \in Events /\ CurHandler(r) = ResumeHandler(p)]_vars
    /\ [](\A p \in Procs :
            pc[p] = "yield" =>
                /\ \E r \in Ctx \ {p} : pc[r] = "hrecv" /\ CurHandler(r).proc = p
                /\ \A r \in Ctx :
                      (r # p /\ pc[r] = "hrecv" /\ CurHandler(r).proc = p)
                          => \A r2 \in Ctx :
                                (pc[r2] = "hrecv" /\ CurHandler(r2).proc = p) => r2 = r)
    /\ [](\A c \in Ctx :
            pc[c] = "hsend" =>
                \A r \in Ctx : ~(pc[r] = "hrecv" /\ CurHandler(r).proc = tgt(c)))

\* C16 witness: the yielding token of p is on offer to the handler that
\* resumed p, while another process is blocked in the select of its own Wait
C16_Witness ==
    \E p, q \in Procs, c \in Ctx :
        /\ pc[p] = "yield" /\ pc[c] = "hrecv"
        /\ frame[c].ev \in Events /\ CurHandler(c) = ResumeHandler(p)
        /\ q # p /\ pc[q] = "select"

\* ------------------------------------------------------------------ C17
\* C17: when the on-abort handler that delivered the abort token to process
\* P returns to the context that is settling the occurrence, P's completion
\* occurrence is aborted, all of its abort handlers have run, and P has
\* ended; and a process that received the abort token reaches the end of its
\* goroutine only with its completion occurrence aborted.
C17_AbortedBeforeReturn ==
    /\ [][\A c \in Ctx :
            (/\ pc[c] = "hrecv" /\ frame[c].ev \in Events
             /\ CurHandler(c) = AbortHandler(tgt(c))
             /\ frame'[c] # frame[c])
                => /\ Aborted(ev(tgt(c))) /\ ~Processed(ev(tgt(c)))
                   /\ last[tgt(c)] = "aborttoken"
                   /\ pc[tgt(c)] = "done"
                   /\ \A c2 \in Ctx : frame[c2].ev # ev(tgt(c))
                   /\ abortHandlers[ev(tgt(c))] = <<>>]_vars
    /\ [](\A p \in Procs :
            (last[p] = "aborttoken" /\ pc[p] \in {"exiting", "done"})
                => Aborted(ev(p)))

\* C17 witness: the on-abort handler that aborted p is about to return: p
\* has ended with its completion occurrence aborted, and the process that
\* was waiting on p has been aborted by p in turn
C17_Witness ==
    \E p, q \in Procs, c \in Ctx :
        /\ pc[c] = "hrecv" /\ frame[c].ev \in Occ
        /\ CurHandler(c) = AbortHandler(p)
        /\ pc[p] = "done" /\ closed[p] /\ Aborted(ev(p))
        /\ q # p /\ arg[q] = ev(p) /\ last[q] = "aborttoken" /\ pc[q] = "done"

\* ------------------------------------------------------------------ C18
\* C18: as long as shutdown is not raised, a context that is inside a
\* handler, blocked at its send or at its receive, eventually has every
\* handler of its settlement returned: the driver is back in its loop, a
\* process that was settling its own completion occurrence ends; and
\* nothing panics.
C18_HandlersReturn ==
    /\ [](~shutdown => ~Crashed)
    /\ \A c \in Ctx :
         (pc[c] \in {"hsend", "hrecv"} /\ ~shutdown)
            ~> (pc[c] \in {"idle", "exiting", "done"} \/ shutdown)

\* C18 witness: on the abort path, the on-abort handler run by the driver
\* is blocked receiving while the process it resumed is ending instead of
\* calling Wait again; shutdown has not been raised
C18_Witness ==
    \E p \in Procs :
        /\ ~shutdown /\ pc[Driver] = "hrecv" /\ frame[Driver].ev \in Occ
        /\ CurHandler(Driver) = AbortHandler(p)
        /\ pc[p] = "exiting" /\ Aborted(ev(p))

\* ------------------------------------------------------------------ C19
\* C19: once shutdown is raised, a process blocked in Wait at its select can
\* take the shutdown case at once, whatever the state of the occurrences;
\* and every process blocked inside Wait, at the send of its yielding token
\* or at its select, eventually terminates (or the whole program ends in a
\* panic).
C19_ShutdownTerminates ==
    /\ [](\A p \in Procs :
            (shutdown /\ pc[p] = "select" /\ ~Crashed)
                => ENABLED SelectShutdown(p))
    /\ \A p \in Procs :
         (shutdown /\ pc[p] \in {"yield", "select"})
            ~> (pc[p] \in {"exiting", "done"} \/ Crashed)

\* C19 witness: two processes suspended on occurrences that are still
\* pending have both ended through the shutdown case, and the driver has
\* settled nothing
C19_Witness ==
    \E p, q \in Procs :
        /\ p # q /\ shutdown
        /\ last[p] = "shutdown" /\ pc[p] = "done" /\ Pending(arg[p])
        /\ last[q] = "shutdown" /\ pc[q] = "done" /\ Pending(arg[q])
        /\ \A o \in Occ : Pending(o)

====
